---- MODULE Spec2Model ----
(***************************************************************************)
(* A model of the BusTub storage core: the clock replacer, the buffer pool *)
(* manager and the linear-probing hash table, translated from              *)
(*   src/src/buffer/clock_replacer.cpp                                     *)
(*   src/src/buffer/buffer_pool_manager.cpp                                *)
(*   src/src/container/hash/linear_probe_hash_table.cpp                    *)
(*                                                                         *)
(* SpecBP   : the buffer pool with its replacer and the disk, driven by a  *)
(*            client that calls the public operations and writes images.   *)
(* SpecHT   : the hash table driven by one thread (whole operations).      *)
(* SpecHTR  : SpecHT with a client that also calls Resize.                 *)
(* SpecConc : the hash table driven by several inserting threads, one      *)
(*            step per latch-protected section.                            *)
(***************************************************************************)
EXTENDS Integers, Sequences, FiniteSets, TLC

(***************************************************************************)
(* Bounds of the model.                                                    *)
(***************************************************************************)
\* number of frames of the pool (pool_size_)
PoolSize ==
  2
\* page ids are 0..MaxPageId
MaxPageId ==
  2
\* page images are 0 (zeroed memory) .. MaxData
MaxData ==
  1
\* cap on a frame's pin count (FetchPage of a resident page is guarded by it)
MaxPinCount ==
  2

\* number of frames of the replacer that is checked alone
NumPages ==
  3

\* number of buffer pool calls and image writes in a run, and of replacer
\* calls in a run of the replacer alone
MaxCalls ==
  7

\* slots of a block page (BLOCK_ARRAY_SIZE of hash_table_page_defs.h, which
\* derives it from the page size; the model keeps block pages small)
BLOCK_ARRAY_SIZE ==
  2
\* cap on the number of block pages of a table (Resize is guarded by it)
MaxBlocks ==
  4
\* num_buckets given to the constructor is 1..MaxBuckets
MaxBuckets ==
  2
\* keys are 0..MaxKey, values 0..MaxValue
MaxKey ==
  2
MaxValue ==
  1
\* number of hash table calls in a run
MaxOps ==
  5

\* pages already in the disk file when the pool is built over an old file
\* number of threads that call Insert concurrently
NumThreads ==
  2
\* number of Insert calls each thread makes
MaxInserts ==
  2
\* number of GetValue and Remove calls the threads make
MaxReads ==
  1

ExistingPages == MaxPageId

INVALID_PAGE_ID ==
  -1

\* "no frame": a null Page pointer, or a page id that is not a key of page_table_
NoFrame ==
  -1

Keys == 0 .. MaxKey
Values == 0 .. MaxValue
Frames == 0 .. (PoolSize - 1)
PageIds == 0 .. MaxPageId
Data == 0 .. MaxData
Threads == 1 .. NumThreads

VARIABLES
  \* ---- buffer pool manager -------------------------------------------
  pages,         \* pages_[f]: page_id, is_dirty, pin_count, data
  page_table,    \* page_table_: page id -> frame, NoFrame when not a key
  free_list,     \* free_list_
  replacer,      \* the ClockReplacer: frames_, clock_hand_, clock_size_
  disk,          \* the disk manager's page images
  next_page_id,  \* the disk manager's allocation counter
  deallocated,   \* page ids handed to DiskManager::DeallocatePage
  last,          \* the last buffer pool call: operation, argument, result
  expect,        \* per page: the image its client wrote and unpinned dirty (0: none)
  calls,         \* number of calls made so far
  \* ---- hash table ------------------------------------------------------
  num_blocks,    \* header->NumBlocks() of the current header page
  blocks,        \* the block pages: blocks[b][o] is slot o of block b (1-based)
  hpc,           \* SpecHT: "idle", or "hung" inside a probe that never ends
  hlast,         \* SpecHT: the last hash table call and what it did
  live,          \* SpecHT: pairs whose Insert returned true, not yet removed
  tp,            \* the table's pages in the pool: pin count, dirty flag, unsaved
  \* ---- inserting threads ----------------------------------------------
  th             \* SpecConc: per thread, its position inside Insert

bpVars == <<pages, page_table, free_list, replacer, disk, next_page_id,
            deallocated, last, expect>>
tableVars == <<num_blocks, blocks>>
htVars == <<hpc, hlast, live>>
vars == <<bpVars, calls, tableVars, htVars, tp, th>>

\* the record of a hash table call: its name, arguments and return value, the
\* values GetValue collected, the slots each probe inspected (one sequence
\* per probe), whether a slot changed, whether the pair was live before the
\* call, and whether the call is stuck in a probe that cannot end; events is
\* the sequence of pool and latch calls the operation made
HCall(op, key, value, ret, result, probes, changed, was_live, hung) ==
  [op |-> op, key |-> key, value |-> value, ret |-> ret, result |-> result,
   probes |-> probes, changed |-> changed, was_live |-> was_live,
   hung |-> hung, events |-> <<>>]

NoCall ==
  HCall("init", 0, 0, TRUE, <<>>, <<>>, FALSE, FALSE, FALSE)

(***************************************************************************)
(* ClockReplacer                                                           *)
(***************************************************************************)
\* ClockReplacer::ClockReplacer: every entry {pin_ = true, ref_ = false}
NewReplacer(num_pages) ==
  [frames_ |-> [f \in 0 .. (num_pages - 1) |-> [pin_ |-> TRUE, ref_ |-> FALSE]],
   clock_hand_ |-> 0,
   clock_size_ |-> 0]

\* the replacer of the buffer pool: new ClockReplacer(pool_size)
ReplacerInit ==
  NewReplacer(PoolSize)

\* frames_.size()
FramesSize(R) ==
  Cardinality(DOMAIN R.frames_)

\* a Pin that decrements clock_size_ whether or not the entry was unpinned
PinAlwaysCounts(R, frame_id) ==
  IF frame_id < 0 \/ frame_id >= FramesSize(R)
  THEN R
  ELSE [R EXCEPT !.frames_[frame_id].pin_ = TRUE, !.clock_size_ = @ - 1]

\* ClockReplacer::Pin
Pin(R, frame_id) ==
  IF frame_id < 0 \/ frame_id >= FramesSize(R)
  THEN R
  ELSE IF ~R.frames_[frame_id].pin_
       THEN [R EXCEPT !.frames_[frame_id].pin_ = TRUE, !.clock_size_ = @ - 1]
       ELSE R

\* ClockReplacer::Unpin
Unpin(R, frame_id) ==
  IF frame_id < 0 \/ frame_id >= FramesSize(R)
  THEN R
  ELSE [R EXCEPT !.clock_size_ = IF R.frames_[frame_id].pin_ THEN @ + 1 ELSE @,
                 !.frames_[frame_id] = [pin_ |-> FALSE, ref_ |-> TRUE]]

\* a replacer that evicts the first unpinned frame at or after the hand,
\* whatever its ref_
RECURSIVE VictimFirstUnpinned(_)
VictimFirstUnpinned(R) ==
  IF R.clock_size_ > 0
  THEN LET h == R.clock_hand_ % FramesSize(R) IN
       IF R.frames_[h].pin_
       THEN VictimFirstUnpinned([R EXCEPT !.clock_hand_ = h + 1])
       ELSE [found |-> TRUE, frame_id |-> h,
             R |-> [R EXCEPT !.frames_[h].pin_ = TRUE,
                             !.clock_size_ = @ - 1,
                             !.clock_hand_ = h + 1]]
  ELSE [found |-> FALSE, frame_id |-> NoFrame, R |-> R]

\* ClockReplacer::Victim: [found, frame_id, R]
RECURSIVE Victim(_)
Victim(R) ==
  IF R.clock_size_ > 0
  THEN LET h == R.clock_hand_ % FramesSize(R) IN
       IF R.frames_[h].pin_
       THEN Victim([R EXCEPT !.clock_hand_ = h + 1])
       ELSE IF R.frames_[h].ref_
            THEN Victim([R EXCEPT !.frames_[h].ref_ = FALSE, !.clock_hand_ = h + 1])
            ELSE [found |-> TRUE, frame_id |-> h,
                  R |-> [R EXCEPT !.frames_[h].pin_ = TRUE,
                                  !.clock_size_ = @ - 1,
                                  !.clock_hand_ = h + 1]]
  ELSE [found |-> FALSE, frame_id |-> NoFrame, R |-> R]

(***************************************************************************)
(* Disk manager (outside src/: what the pool relies on)                    *)
(***************************************************************************)
\* DiskManager::WritePage: a write outside the file's pages stores nothing
WritePage(dsk, page_id, data) ==
  IF page_id \in PageIds THEN [dsk EXCEPT ![page_id] = data] ELSE dsk

\* DiskManager::ReadPage
ReadPage(dsk, page_id) ==
  dsk[page_id]

\* the effect of a sequence of WritePage calls <<page_id, data>>
RECURSIVE ApplyWrites(_, _)
ApplyWrites(dsk, ws) ==
  IF ws = <<>> THEN dsk
  ELSE ApplyWrites(WritePage(dsk, Head(ws)[1], Head(ws)[2]), Tail(ws))

(***************************************************************************)
(* BufferPoolManager                                                       *)
(***************************************************************************)
\* Page::ResetMemory followed by is_dirty_ = false, pin_count_ = 0
ResetPage(page) ==
  [page EXCEPT !.data = 0, !.is_dirty = FALSE, !.pin_count = 0]

\* a mutant of VictimWrites: the victim is reset before it is written
VictimWritesAfterReset(page) ==
  IF page.is_dirty THEN << <<page.page_id, ResetPage(page).data>> >> ELSE <<>>

\* the WritePage calls made for a victim frame, before it is reset
VictimWrites(page) ==
  IF page.is_dirty THEN << <<page.page_id, page.data>> >> ELSE <<>>

\* the frame a non-resident FetchPage / a NewPage obtains: the front of the
\* free list, else the replacer's victim (written back when dirty, then reset)
ObtainFrame ==
  IF free_list # <<>>
  THEN LET f == Head(free_list) IN
       [ok |-> TRUE, frame_id |-> f, evicted |-> FALSE,
        victim |-> pages[f], wrote |-> <<>>,
        pages |-> pages,
        free_list |-> Tail(free_list),
        replacer |-> Unpin(replacer, f),
        disk |-> disk]
  ELSE LET v == Victim(replacer) IN
       IF v.found
       THEN LET f == v.frame_id
                w == VictimWrites(pages[f]) IN
            [ok |-> TRUE, frame_id |-> f, evicted |-> TRUE,
             victim |-> pages[f], wrote |-> w,
             pages |-> [pages EXCEPT ![f] = ResetPage(pages[f])],
             free_list |-> free_list,
             replacer |-> v.R,
             disk |-> ApplyWrites(disk, w)]
       ELSE [ok |-> FALSE, frame_id |-> NoFrame, evicted |-> FALSE,
             victim |-> pages[0], wrote |-> <<>>,
             pages |-> pages, free_list |-> free_list,
             replacer |-> v.R, disk |-> disk]

\* the record of a call that obtained no frame and of calls that evict nothing
NoVictim ==
  [page_id |-> INVALID_PAGE_ID, is_dirty |-> FALSE, pin_count |-> 0, data |-> 0]

Call(op, page_id, frame, ok, g) ==
  [op |-> op, page_id |-> page_id, frame |-> frame, ok |-> ok,
   evicted |-> g.evicted,
   victim |-> IF g.evicted THEN g.victim ELSE NoVictim,
   wrote |-> g.wrote]

PlainCall(op, page_id, frame, ok) ==
  Call(op, page_id, frame, ok, [evicted |-> FALSE, wrote |-> <<>>])

\* the record of a call that obtains no frame: its name and its return value
OtherCall(op, ok) ==
  PlainCall(op, INVALID_PAGE_ID, NoFrame, ok)

\* pages a client may name: the ones the disk manager has allocated and the
\* client has not deleted
Allocated == {p \in PageIds : p < next_page_id} \ deallocated

\* BufferPoolManager::FetchPageImpl
FetchPageImpl(page_id) ==
  /\ page_id \in Allocated
  /\ IF page_table[page_id] # NoFrame
     THEN LET f == page_table[page_id] IN
          /\ pages[f].pin_count < MaxPinCount
          /\ pages' = [pages EXCEPT ![f].pin_count = @ + 1]
          /\ replacer' = Pin(replacer, f)
          /\ last' = PlainCall("FetchPage", page_id, f, TRUE)
          /\ UNCHANGED <<page_table, free_list, disk>>
     ELSE LET g == ObtainFrame IN
          IF g.ok
          THEN LET f == g.frame_id IN
               /\ pages' = [g.pages EXCEPT ![f].page_id = page_id,
                                           ![f].data = ReadPage(g.disk, page_id),
                                           ![f].pin_count = @ + 1]
               /\ replacer' = Pin(g.replacer, page_id)
               /\ page_table' = [page_table EXCEPT ![page_id] = f]
               /\ free_list' = g.free_list
               /\ disk' = g.disk
               /\ last' = Call("FetchPage", page_id, f, TRUE, g)
          ELSE /\ last' = Call("FetchPage", page_id, NoFrame, FALSE, g)
               /\ replacer' = g.replacer
               /\ UNCHANGED <<pages, page_table, free_list, disk>>
  /\ UNCHANGED <<next_page_id, deallocated, expect>>

\* BufferPoolManager::NewPageImpl
NewPageImpl ==
  LET g == ObtainFrame IN
  IF g.ok
  THEN LET f == g.frame_id
           page_id == next_page_id IN
       /\ next_page_id <= MaxPageId
       /\ next_page_id' = next_page_id + 1
       /\ pages' = [g.pages EXCEPT ![f].page_id = page_id,
                                   ![f].pin_count = @ + 1]
       /\ page_table' = [page_table EXCEPT ![page_id] = f]
       /\ replacer' = Pin(g.replacer, page_id)
       /\ free_list' = g.free_list
       /\ disk' = g.disk
       /\ last' = Call("NewPage", page_id, f, TRUE, g)
       /\ UNCHANGED <<deallocated, expect>>
  ELSE /\ last' = Call("NewPage", INVALID_PAGE_ID, NoFrame, FALSE, g)
       /\ replacer' = g.replacer
       /\ UNCHANGED <<pages, page_table, free_list, disk, next_page_id,
                      deallocated, expect>>

\* BufferPoolManager::UnpinPageImpl
UnpinPageImpl(page_id, is_dirty) ==
  /\ IF page_table[page_id] = NoFrame
     THEN /\ last' = OtherCall("UnpinPage", FALSE)
          /\ UNCHANGED <<pages, replacer, expect>>
     ELSE LET f == page_table[page_id] IN
          /\ IF pages[f].pin_count > 0
             THEN /\ pages' = [pages EXCEPT ![f].is_dirty = @ \/ is_dirty,
                                            ![f].pin_count = @ - 1]
                  /\ replacer' = IF pages[f].pin_count - 1 = 0
                                 THEN Unpin(replacer, f) ELSE replacer
                  /\ expect' = IF is_dirty /\ pages[f].page_id = page_id
                               THEN [expect EXCEPT ![page_id] = pages[f].data]
                               ELSE expect
             ELSE UNCHANGED <<pages, replacer, expect>>
          /\ last' = OtherCall("UnpinPage", TRUE)
  /\ UNCHANGED <<page_table, free_list, disk, next_page_id, deallocated>>

\* BufferPoolManager::FlushPageImpl
FlushPageImpl(page_id) ==
  /\ IF page_table[page_id] # NoFrame
     THEN LET f == page_table[page_id] IN
          /\ IF pages[f].is_dirty
             THEN /\ disk' = WritePage(disk, page_id, pages[f].data)
                  /\ pages' = [pages EXCEPT ![f].is_dirty = FALSE]
             ELSE UNCHANGED <<disk, pages>>
          /\ last' = OtherCall("FlushPage", TRUE)
     ELSE /\ last' = OtherCall("FlushPage", FALSE)
          /\ UNCHANGED <<disk, pages>>
  /\ UNCHANGED <<page_table, free_list, replacer, next_page_id, deallocated,
                 expect>>

\* BufferPoolManager::DeletePageImpl
DeletePageImpl(page_id) ==
  /\ page_id \in Allocated
  /\ IF page_table[page_id] # NoFrame
     THEN LET f == page_table[page_id] IN
          IF pages[f].pin_count > 0
          THEN /\ last' = OtherCall("DeletePage", FALSE)
               /\ UNCHANGED <<pages, page_table, deallocated, expect>>
          ELSE /\ page_table' = [page_table EXCEPT ![page_id] = NoFrame]
               /\ deallocated' = deallocated \cup {page_id}
               /\ pages' = [pages EXCEPT
                              ![f] = [ResetPage(pages[f]) EXCEPT
                                        !.page_id = INVALID_PAGE_ID]]
               /\ expect' = [expect EXCEPT ![page_id] = 0]
               /\ last' = OtherCall("DeletePage", TRUE)
     ELSE /\ last' = OtherCall("DeletePage", TRUE)
          /\ UNCHANGED <<pages, page_table, deallocated, expect>>
  /\ UNCHANGED <<free_list, replacer, disk, next_page_id>>

\* the disk after FlushAllPagesImpl's loop has handled frames i .. PoolSize-1
RECURSIVE FlushFrom(_, _)
FlushFrom(i, dsk) ==
  IF i >= PoolSize THEN dsk
  ELSE FlushFrom(i + 1,
         IF pages[i].page_id # INVALID_PAGE_ID /\ pages[i].is_dirty
         THEN WritePage(dsk, pages[i].page_id, pages[i].data)
         ELSE dsk)

\* BufferPoolManager::FlushAllPagesImpl
FlushAllPagesImpl ==
  /\ disk' = FlushFrom(0, disk)
  /\ pages' = [f \in Frames |->
                 IF pages[f].page_id # INVALID_PAGE_ID /\ pages[f].is_dirty
                 THEN [pages[f] EXCEPT !.is_dirty = FALSE]
                 ELSE pages[f]]
  /\ last' = OtherCall("FlushAllPages", TRUE)
  /\ UNCHANGED <<page_table, free_list, replacer, next_page_id, deallocated,
                 expect>>

\* the client of a pinned page writes an image through the Page pointer that
\* FetchPage(page_id) / NewPage gave it (Page::GetData)
WriteData(page_id, d) ==
  /\ page_id \in Allocated
  /\ page_table[page_id] # NoFrame
  /\ LET f == page_table[page_id] IN
     /\ pages[f].pin_count > 0
     /\ pages' = [pages EXCEPT ![f].data = d]
     /\ last' = OtherCall("WriteData", TRUE)
  /\ expect' = [expect EXCEPT ![page_id] = 0]
  /\ UNCHANGED <<page_table, free_list, replacer, disk, next_page_id,
                 deallocated>>

\* BufferPoolManager::BufferPoolManager, over a disk file that already holds
\* next_page_id zeroed pages (0 for a new file)
InitBP ==
  /\ pages = [f \in Frames |-> NoVictim]
  /\ page_table = [p \in PageIds |-> NoFrame]
  /\ free_list = [i \in 1 .. PoolSize |-> i - 1]
  /\ replacer = ReplacerInit
  /\ disk = [p \in PageIds |-> 0]
  /\ next_page_id \in {0, ExistingPages}
  /\ deallocated = {}
  /\ last = OtherCall("init", TRUE)
  /\ expect = [p \in PageIds |-> 0]
  /\ calls = 0
  /\ num_blocks = 0
  /\ blocks = <<>>
  /\ hpc = "idle"
  /\ hlast = NoCall
  /\ live = {}
  /\ tp = <<>>
  /\ th = <<>>

\* one more call of the pool's client, within the budget of the run; the hash
\* table and the inserting threads do not move
Tick ==
  /\ calls < MaxCalls
  /\ calls' = calls + 1
  /\ UNCHANGED <<tableVars, htVars, tp, th>>

NextBP ==
  \/ \E p \in PageIds : Tick /\ FetchPageImpl(p)
  \/ Tick /\ NewPageImpl
  \/ \E p \in PageIds, is_dirty \in BOOLEAN : Tick /\ UnpinPageImpl(p, is_dirty)
  \/ \E p \in PageIds : Tick /\ FlushPageImpl(p)
  \/ \E p \in PageIds : Tick /\ DeletePageImpl(p)
  \/ Tick /\ FlushAllPagesImpl
  \/ \E p \in PageIds, d \in Data : Tick /\ WriteData(p, d)

SpecBP ==
  InitBP /\ [][NextBP]_vars

(***************************************************************************)
(* Buffer pool claims (checked under SpecBP)                               *)
(***************************************************************************)
\* the step is a NewPage, or a FetchPage of a page that is not in page_table_
ObtainStep ==
  \/ last'.op = "NewPage"
  \/ last'.op = "FetchPage" /\ page_table[last'.page_id] = NoFrame

\* C1: NewPage and FetchPage never give a frame whose pin_count is greater
\* than 0 to another page, and when every frame has pin_count > 0 a NewPage
\* or a FetchPage of a non-resident page returns null and changes nothing.
C1_PinnedFrameKept ==
  [][ /\ last'.op \in {"NewPage", "FetchPage"} =>
           \A f \in Frames :
              pages[f].pin_count > 0 => pages'[f].page_id = pages[f].page_id
      /\ (ObtainStep /\ \A f \in Frames : pages[f].pin_count > 0) =>
           /\ last'.frame = NoFrame
           /\ UNCHANGED <<pages, page_table, free_list, replacer, disk,
                          next_page_id>>
    ]_vars

\* C2: a page id is a key of the page table exactly when exactly one frame
\* holds that page id, and the entry maps to that frame.
C2_PageTableConsistent ==
  \A p \in PageIds :
    /\ page_table[p] # NoFrame <=>
         Cardinality({f \in Frames : pages[f].page_id = p}) = 1
    /\ page_table[p] # NoFrame => pages[page_table[p]].page_id = p

\* C3: a successful FetchPage(A), made after the client wrote a (non-zero)
\* image into A and unpinned it dirty, returns a frame whose page id is A and
\* whose image is the image that was written, also when A's frame was reused
\* for another page in between.
C3_ReloadPreservesImage ==
  (last.op = "FetchPage" /\ last.frame # NoFrame
     /\ expect[last.page_id] > 0) =>
    /\ pages[last.frame].page_id = last.page_id
    /\ pages[last.frame].data = expect[last.page_id]

\* C4: when FetchPage or NewPage reuses a dirty frame, the frame's previous
\* (page id, image) is written to disk before the image is reset and the
\* page id changed: the one WritePage call carries the old page id and the
\* old image, and the disk holds that image afterwards.
C4_DirtyVictimWritten ==
  (last.op \in {"FetchPage", "NewPage"} /\ last.evicted
     /\ last.victim.is_dirty) =>
    /\ last.wrote = << <<last.victim.page_id, last.victim.data>> >>
    /\ last.victim.page_id \in PageIds =>
         disk[last.victim.page_id] = last.victim.data
    /\ pages[last.frame].page_id = last.page_id

\* C4 witness: a dirty frame holding a written (non-zero) image has just been
\* reused for another page and the disk holds its image.
C4_Witness ==
  /\ last.op \in {"FetchPage", "NewPage"}
  /\ last.evicted
  /\ last.victim.is_dirty
  /\ last.victim.data # 0
  /\ last.victim.page_id \in PageIds
  /\ last.victim.page_id # last.page_id
  /\ disk[last.victim.page_id] = last.victim.data
  /\ pages[last.frame].page_id = last.page_id

\* the frames the pool holds with a page, pin_count 0, and off the free list
Evictable ==
  {f \in Frames : /\ pages[f].page_id # INVALID_PAGE_ID
                  /\ pages[f].pin_count = 0
                  /\ \A i \in 1 .. Len(free_list) : free_list[i] # f}

\* C5: the replacer marks a frame unpinned exactly when the frame holds a
\* page with pin_count 0 and is not on the free list, and its unpinned count
\* is the number of such frames.
C5_ReplacerMatchesPins ==
  /\ \A f \in Frames : ~replacer.frames_[f].pin_ <=> f \in Evictable
  /\ replacer.clock_size_ = Cardinality(Evictable)

\* frame f is on the free list
OnFreeList(fl, f) ==
  \E i \in 1 .. Len(fl) : fl[i] = f

\* C14: DeletePage(p) on a resident page with pin_count 0 returns true and
\* leaves p out of the page table, its frame with page id INVALID, dirty
\* false and pin_count 0, on the free list and not a candidate of the
\* replacer; the free list and the frames of the page table stay disjoint.
C14_DeleteFreesFrame ==
  [][\A p \in PageIds :
       (/\ DeletePageImpl(p)
        /\ calls' # calls
        /\ page_table[p] # NoFrame
        /\ pages[page_table[p]].pin_count = 0)
       => LET f == page_table[p] IN
          /\ last'.ok
          /\ page_table'[p] = NoFrame
          /\ pages'[f].page_id = INVALID_PAGE_ID
          /\ ~pages'[f].is_dirty
          /\ pages'[f].pin_count = 0
          /\ OnFreeList(free_list', f)
          /\ replacer'.frames_[f].pin_
          /\ \A q \in PageIds :
               page_table'[q] # NoFrame => ~OnFreeList(free_list', page_table'[q])
    ]_vars

\* C15: UnpinPage(p, is_dirty) on a resident page returns true and ORs
\* is_dirty into the frame's dirty flag whatever the pin count; it decrements
\* pin_count only when pin_count > 0 and calls Replacer::Unpin exactly when
\* pin_count reaches 0.  On a page that is not resident it returns false and
\* changes nothing.
C15_UnpinKeepsDirty ==
  [][\A p \in PageIds, is_dirty \in BOOLEAN :
       (UnpinPageImpl(p, is_dirty) /\ calls' # calls)
       => IF page_table[p] = NoFrame
          THEN /\ ~last'.ok
               /\ UNCHANGED <<pages, page_table, free_list, replacer, disk>>
          ELSE LET f == page_table[p] IN
               /\ last'.ok
               /\ pages'[f].is_dirty = (pages[f].is_dirty \/ is_dirty)
               /\ pages'[f].pin_count =
                    IF pages[f].pin_count > 0 THEN pages[f].pin_count - 1 ELSE 0
               /\ replacer' = IF pages[f].pin_count = 1
                               THEN Unpin(replacer, f) ELSE replacer
    ]_vars

\* C20: a frame's dirty flag is true only if the frame's page id is not
\* INVALID, so no eviction or flush writes page id INVALID to disk.
C20_DirtyHasPage ==
  \A f \in Frames : pages[f].is_dirty => pages[f].page_id # INVALID_PAGE_ID

(***************************************************************************)
(* SpecCR: a ClockReplacer of NumPages frames and its client               *)
(***************************************************************************)
\* the record of a call of the replacer: its name, its frame id (the one
\* Victim gives back), Victim's return value, the replacer before the call
ReplacerCall(op, frame_id, found, before) ==
  [op |-> op, frame |-> frame_id, ok |-> found, before |-> before]

\* the frame ids a client passes: the replacer's frames and one id on each
\* side of them
FrameIds == -1 .. NumPages

\* the client calls Pin(frame_id)
PinCall(frame_id) ==
  /\ replacer' = Pin(replacer, frame_id)
  /\ last' = ReplacerCall("Pin", frame_id, TRUE, replacer)

\* the client calls Unpin(frame_id)
UnpinCall(frame_id) ==
  /\ replacer' = Unpin(replacer, frame_id)
  /\ last' = ReplacerCall("Unpin", frame_id, TRUE, replacer)

\* the client calls Victim(&frame_id)
VictimCall ==
  LET v == Victim(replacer) IN
  /\ replacer' = v.R
  /\ last' = ReplacerCall("Victim", v.frame_id, v.found, replacer)

\* one more call of the replacer's client; nothing else moves
TickCR ==
  /\ calls < MaxCalls
  /\ calls' = calls + 1
  /\ UNCHANGED <<pages, page_table, free_list, disk, next_page_id, deallocated,
                 expect, tableVars, htVars, tp, th>>

InitCR ==
  /\ pages = <<>>
  /\ page_table = <<>>
  /\ free_list = <<>>
  /\ replacer = NewReplacer(NumPages)
  /\ disk = <<>>
  /\ next_page_id = 0
  /\ deallocated = {}
  /\ last = ReplacerCall("init", NoFrame, TRUE, NewReplacer(NumPages))
  /\ expect = <<>>
  /\ calls = 0
  /\ num_blocks = 0
  /\ blocks = <<>>
  /\ hpc = "idle"
  /\ hlast = NoCall
  /\ live = {}
  /\ tp = <<>>
  /\ th = <<>>

NextCR ==
  \/ \E f \in FrameIds : TickCR /\ PinCall(f)
  \/ \E f \in FrameIds : TickCR /\ UnpinCall(f)
  \/ TickCR /\ VictimCall

SpecCR ==
  InitCR /\ [][NextCR]_vars

(***************************************************************************)
(* Replacer claims (checked under SpecCR)                                  *)
(***************************************************************************)
\* the frames Victim may choose among
Unpinned(R) ==
  {f \in DOMAIN R.frames_ : ~R.frames_[f].pin_}

\* the number of frames the hand passes before it stands on frame f
Dist(R, f) ==
  (f + FramesSize(R) - (R.clock_hand_ % FramesSize(R))) % FramesSize(R)

\* second chance, said without a loop: among the unpinned frames whose
\* referenced bit is clear, or among all unpinned frames when every one of
\* them is referenced, the first one from the hand
SecondChance(R) ==
  LET clear == {f \in Unpinned(R) : ~R.frames_[f].ref_}
      among == IF clear # {} THEN clear ELSE Unpinned(R)
  IN CHOOSE f \in among : \A g \in among : Dist(R, f) <= Dist(R, g)

\* the replacer after second chance has evicted frame v: the unpinned frames
\* the hand has passed have lost their referenced bit (all of them after a
\* full turn), v is pinned, the hand is just past v
AfterSecondChance(R, v) ==
  LET turn == \A f \in Unpinned(R) : R.frames_[f].ref_
      passed == {f \in Unpinned(R) : turn \/ Dist(R, f) < Dist(R, v)}
  IN [frames_ |-> [f \in DOMAIN R.frames_ |->
                     IF f = v THEN [pin_ |-> TRUE, ref_ |-> FALSE]
                     ELSE IF f \in passed THEN [pin_ |-> FALSE, ref_ |-> FALSE]
                     ELSE R.frames_[f]],
      clock_hand_ |-> v + 1,
      clock_size_ |-> R.clock_size_ - 1]

\* C16: Victim is second chance: from the persistent hand, cyclically, it
\* skips pinned frames, clears the referenced bit of the unpinned referenced
\* frames it passes and returns the first unpinned frame whose bit is clear,
\* pinned, with the hand just past it; with no unpinned frame it returns
\* false and changes nothing.  So an unpinned frame whose bit is clear is
\* evicted before a frame unpinned since the hand last passed it.
C16_VictimSecondChance ==
  [][(last'.op = "Victim" /\ calls' # calls)
     => IF Unpinned(replacer) = {}
        THEN ~last'.ok /\ replacer' = replacer
        ELSE /\ last'.ok
             /\ last'.frame = SecondChance(replacer)
             /\ replacer' = AfterSecondChance(replacer, last'.frame)
             /\ replacer.frames_[last'.frame].ref_ =>
                  \A f \in Unpinned(replacer) : replacer.frames_[f].ref_
    ]_vars

\* Victim has just passed a frame A that was unpinned again after the hand
\* had passed it, cleared A's referenced bit, and evicted a frame B whose
\* bit was already clear
C16_Witness ==
  /\ last.op = "Victim"
  /\ last.ok
  /\ ~last.before.frames_[last.frame].ref_
  /\ \E A \in Unpinned(last.before) :
       /\ A # last.frame
       /\ last.before.frames_[A].ref_
       /\ Dist(last.before, A) < Dist(last.before, last.frame)
       /\ replacer.frames_[A] = [pin_ |-> FALSE, ref_ |-> FALSE]

\* the number of times Victim's loop body runs from R, after n runs; a loop
\* that has run more than two sweeps is stopped and reported as it is
RECURSIVE VictimSteps(_, _)
VictimSteps(R, n) ==
  IF n > 2 * FramesSize(R) THEN n
  ELSE IF R.clock_size_ > 0
  THEN LET h == R.clock_hand_ % FramesSize(R) IN
       IF R.frames_[h].pin_
       THEN VictimSteps([R EXCEPT !.clock_hand_ = h + 1], n + 1)
       ELSE IF R.frames_[h].ref_
            THEN VictimSteps([R EXCEPT !.frames_[h].ref_ = FALSE,
                                       !.clock_hand_ = h + 1], n + 1)
            ELSE n + 1
  ELSE n

\* C21: in the replacer alone, after any Pin, Unpin and Victim calls with
\* any frame ids, clock_size_ is the number of entries with pin_ false and
\* lies in 0 .. num_pages; a call with an out-of-range id, and a Pin of a
\* pinned frame, change nothing; Victim's loop ends within two sweeps of the
\* hand, and Victim returns false exactly when no entry is unpinned.
C21_CountMatchesUnpinned ==
  /\ replacer.clock_size_ = Cardinality(Unpinned(replacer))
  /\ replacer.clock_size_ \in 0 .. NumPages
  /\ (last.op \in {"Pin", "Unpin"} /\ last.frame \notin DOMAIN replacer.frames_)
       => replacer = last.before
  /\ (/\ last.op = "Pin"
      /\ last.frame \in DOMAIN replacer.frames_
      /\ last.before.frames_[last.frame].pin_)
       => replacer = last.before
  /\ last.op = "Victim" =>
       /\ VictimSteps(last.before, 0) <= 2 * NumPages
       /\ last.ok <=> Unpinned(last.before) # {}

\* Victim has just needed its second sweep: every unpinned frame was
\* referenced, and the hand came back to the first of them
C21_Witness ==
  /\ last.op = "Victim"
  /\ last.ok
  /\ VictimSteps(last.before, 0) > NumPages

(***************************************************************************)
(* Hash table pages (outside src/: what the table relies on)               *)
(***************************************************************************)
\* HashFunction::GetHash, with hash(k) = k as in the spec's scenarios
Hash(key) ==
  key

\* a slot of a zeroed block page
EmptySlot ==
  [occupied |-> FALSE, readable |-> FALSE, key |-> 0, value |-> 0]

\* HashTableBlockPage::Insert: claims the slot iff it is not readable
BlockInsert(slot, key, value) ==
  IF slot.readable
  THEN [ok |-> FALSE, slot |-> slot]
  ELSE [ok |-> TRUE,
        slot |-> [occupied |-> TRUE, readable |-> TRUE,
                  key |-> key, value |-> value]]

\* HashTableBlockPage::Remove: clears the readable bit, leaves occupied set
BlockRemove(slot) ==
  [slot EXCEPT !.readable = FALSE]

\* the block pages of a new table: NewPage gives zeroed pages
EmptyTable(nb) ==
  [b \in 0 .. (nb - 1) |-> [o \in 0 .. (BLOCK_ARRAY_SIZE - 1) |-> EmptySlot]]

(***************************************************************************)
(* LinearProbeHashTable: the probes, as the code runs them                 *)
(***************************************************************************)
\* hash_fn_.GetHash(key) % (header->NumBlocks() * BLOCK_ARRAY_SIZE)
HashVal(nb, key) ==
  Hash(key) % (nb * BLOCK_ARRAY_SIZE)

\* the "one circle" test made after offset++ and before the wrap to the next
\* block: block_ind * BLOCK_ARRAY_SIZE + offset == hash_val
ProbeEnd(nb, block_ind, offset, hash_val) ==
  block_ind * BLOCK_ARRAY_SIZE + offset = hash_val

\* A probe that has inspected more slots than the table has is back at a slot
\* it has seen, with the same table: the loop repeats for ever. The model
\* stops it there and reports it as hung.
Repeats(nb, visited) ==
  Len(visited) > nb * BLOCK_ARRAY_SIZE

\* the loop of GetValue, from (block_ind, offset)
RECURSIVE GetValueLoop(_, _, _, _, _, _, _, _)
GetValueLoop(nb, tb, key, hash_val, block_ind, offset, result, visited) ==
  IF Repeats(nb, visited)
  THEN [hung |-> TRUE, result |-> result, visited |-> visited]
  ELSE
    LET slot == tb[block_ind][offset]
        seen == Append(visited, block_ind * BLOCK_ARRAY_SIZE + offset)
    IN
    IF ~slot.occupied
    THEN [hung |-> FALSE, result |-> result, visited |-> seen]
    ELSE
      LET found == IF slot.readable /\ slot.key = key
                   THEN Append(result, slot.value) ELSE result
      IN
      IF ProbeEnd(nb, block_ind, offset + 1, hash_val)
      THEN [hung |-> FALSE, result |-> found, visited |-> seen]
      ELSE IF offset + 1 >= BLOCK_ARRAY_SIZE
           THEN GetValueLoop(nb, tb, key, hash_val, (block_ind + 1) % nb, 0,
                             found, seen)
           ELSE GetValueLoop(nb, tb, key, hash_val, block_ind, offset + 1,
                             found, seen)

\* LinearProbeHashTable::GetValue: [hung, result, visited]
GetValueProbe(nb, tb, key) ==
  LET hash_val == HashVal(nb, key) IN
  GetValueLoop(nb, tb, key, hash_val, hash_val \div BLOCK_ARRAY_SIZE,
               hash_val % BLOCK_ARRAY_SIZE, <<>>, <<>>)

\* the loop of InternalInsert, from (block_ind, offset)
RECURSIVE InternalInsertLoop(_, _, _, _, _, _, _, _)
InternalInsertLoop(nb, tb, key, value, hash_val, block_ind, offset, visited) ==
  IF Repeats(nb, visited)
  THEN [ret |-> FALSE, full |-> FALSE, hung |-> TRUE, tb |-> tb,
        visited |-> visited]
  ELSE
    LET slot == tb[block_ind][offset]
        seen == Append(visited, block_ind * BLOCK_ARRAY_SIZE + offset)
        ins == BlockInsert(slot, key, value)
    IN
    IF ins.ok
    THEN [ret |-> TRUE, full |-> FALSE, hung |-> FALSE,
          tb |-> [tb EXCEPT ![block_ind][offset] = ins.slot],
          visited |-> seen]
    ELSE IF slot.key = key /\ slot.value = value
    THEN [ret |-> FALSE, full |-> FALSE, hung |-> FALSE, tb |-> tb,
          visited |-> seen]
    ELSE IF ProbeEnd(nb, block_ind, offset + 1, hash_val)
    THEN [ret |-> FALSE, full |-> TRUE, hung |-> FALSE, tb |-> tb,
          visited |-> seen]
    ELSE IF offset + 1 >= BLOCK_ARRAY_SIZE
    THEN InternalInsertLoop(nb, tb, key, value, hash_val,
                            (block_ind + 1) % nb, 0, seen)
    ELSE InternalInsertLoop(nb, tb, key, value, hash_val,
                            block_ind, offset + 1, seen)

\* LinearProbeHashTable::InternalInsert: [ret, full, hung, tb, visited]
InternalInsert(nb, tb, key, value) ==
  LET hash_val == HashVal(nb, key) IN
  InternalInsertLoop(nb, tb, key, value, hash_val,
                     hash_val \div BLOCK_ARRAY_SIZE,
                     hash_val % BLOCK_ARRAY_SIZE, <<>>)

\* the loop of Remove, from (block_ind, offset)
RECURSIVE RemoveLoop(_, _, _, _, _, _, _, _)
RemoveLoop(nb, tb, key, value, hash_val, block_ind, offset, visited) ==
  IF Repeats(nb, visited)
  THEN [ret |-> FALSE, hung |-> TRUE, tb |-> tb, visited |-> visited]
  ELSE
    LET slot == tb[block_ind][offset]
        seen == Append(visited, block_ind * BLOCK_ARRAY_SIZE + offset)
    IN
    IF ~slot.occupied
    THEN [ret |-> FALSE, hung |-> FALSE, tb |-> tb, visited |-> seen]
    ELSE IF slot.key = key /\ slot.value = value
    THEN IF ~slot.readable
         THEN [ret |-> FALSE, hung |-> FALSE, tb |-> tb, visited |-> seen]
         ELSE [ret |-> TRUE, hung |-> FALSE,
               tb |-> [tb EXCEPT ![block_ind][offset] = BlockRemove(slot)],
               visited |-> seen]
    ELSE IF ProbeEnd(nb, block_ind, offset + 1, hash_val)
    THEN [ret |-> FALSE, hung |-> FALSE, tb |-> tb, visited |-> seen]
    ELSE IF offset + 1 >= BLOCK_ARRAY_SIZE
    THEN RemoveLoop(nb, tb, key, value, hash_val, (block_ind + 1) % nb, 0,
                    seen)
    ELSE RemoveLoop(nb, tb, key, value, hash_val, block_ind, offset + 1,
                    seen)

\* LinearProbeHashTable::Remove: [ret, hung, tb, visited]
RemoveProbe(nb, tb, key, value) ==
  LET hash_val == HashVal(nb, key) IN
  RemoveLoop(nb, tb, key, value, hash_val, hash_val \div BLOCK_ARRAY_SIZE,
             hash_val % BLOCK_ARRAY_SIZE, <<>>)

\* LinearProbeHashTable::GetSize
GetSize(nb) ==
  nb * BLOCK_ARRAY_SIZE

\* the number of block pages Resize(initial_size) gives the new header
NewSize(initial_size) ==
  (2 * initial_size) \div BLOCK_ARRAY_SIZE
    + (IF (2 * initial_size) % BLOCK_ARRAY_SIZE > 0 THEN 1 ELSE 0)

\* the migration loop of Resize from slot i of the old table (block by block,
\* offset by offset): each readable entry goes through InternalInsert, whose
\* return value is dropped
RECURSIVE Migrate(_, _, _, _, _)
Migrate(old_nb, old_tb, i, new_nb, new_tb) ==
  IF i >= old_nb * BLOCK_ARRAY_SIZE
  THEN [hung |-> FALSE, tb |-> new_tb]
  ELSE
    LET slot == old_tb[i \div BLOCK_ARRAY_SIZE][i % BLOCK_ARRAY_SIZE] IN
    IF slot.readable
    THEN LET r == InternalInsert(new_nb, new_tb, slot.key, slot.value) IN
         IF r.hung
         THEN [hung |-> TRUE, tb |-> r.tb]
         ELSE Migrate(old_nb, old_tb, i + 1, new_nb, r.tb)
    ELSE Migrate(old_nb, old_tb, i + 1, new_nb, new_tb)

\* a Resize that copies the old block pages to the same places of the new
\* table instead of inserting their pairs again
ResizeTableCopying(nb, tb, initial_size) ==
  LET new_nb == NewSize(initial_size) IN
  [nb |-> new_nb,
   tb |-> [b \in 0 .. (new_nb - 1) |->
             IF b < nb THEN tb[b] ELSE EmptyTable(new_nb)[b]],
   hung |-> FALSE]

\* LinearProbeHashTable::Resize: [nb, tb, hung]
ResizeTable(nb, tb, initial_size) ==
  LET new_nb == NewSize(initial_size)
      m == Migrate(nb, tb, 0, new_nb, EmptyTable(new_nb))
  IN [nb |-> new_nb, tb |-> m.tb, hung |-> m.hung]

\* Insert's flag after an InternalInsert: bool full is set to false once,
\* before the loop, and InternalInsert only ever sets it to true
KeepFull(full, signalled) ==
  full \/ signalled

\* the loop of Insert run by one thread:
\* [ret, hung, over, nb, tb, probes, resizes]; over: a Resize beyond MaxBlocks
RECURSIVE InsertLoop(_, _, _, _, _, _, _)
InsertLoop(nb, tb, key, value, full, probes, resizes) ==
  LET r == InternalInsert(nb, tb, key, value)
      seen == Append(probes, r.visited)
  IN
  IF r.hung
  THEN [ret |-> FALSE, hung |-> TRUE, over |-> FALSE, nb |-> nb, tb |-> r.tb,
        probes |-> seen, resizes |-> resizes]
  ELSE IF r.ret
  THEN [ret |-> TRUE, hung |-> FALSE, over |-> FALSE, nb |-> nb, tb |-> r.tb,
        probes |-> seen, resizes |-> resizes]
  ELSE IF KeepFull(full, r.full)
  THEN IF NewSize(GetSize(nb)) > MaxBlocks
       THEN [ret |-> FALSE, hung |-> FALSE, over |-> TRUE, nb |-> nb,
             tb |-> tb, probes |-> seen, resizes |-> resizes]
       ELSE LET z == ResizeTable(nb, tb, GetSize(nb)) IN
            IF z.hung
            THEN [ret |-> FALSE, hung |-> TRUE, over |-> FALSE, nb |-> z.nb,
                  tb |-> z.tb, probes |-> seen, resizes |-> resizes + 1]
            ELSE InsertLoop(z.nb, z.tb, key, value, KeepFull(full, r.full),
                            seen, resizes + 1)
  ELSE [ret |-> FALSE, hung |-> FALSE, over |-> FALSE, nb |-> nb, tb |-> tb,
        probes |-> seen, resizes |-> resizes]

(***************************************************************************)
(* The pool and latch calls of the table's operations                      *)
(*                                                                         *)
(* Every operation is also followed as the sequence of calls it makes on   *)
(* the buffer pool (FetchPage, NewPage, UnpinPage, DeletePage), on the     *)
(* latches (table latch: RLock ..; page latch: RLatch ..) and of the       *)
(* writes it makes into page images.  The pool is taken to be large enough *)
(* for every FetchPage and NewPage to succeed.                             *)
(***************************************************************************)
\* the table latch, and the header page and block page b of the table of
\* generation g: the g-th table that Resize built since the operation began
TableLatch ==
  <<"table", 0, 0>>

HeaderOf(g) ==
  <<"header", g, 0>>

BlockOf(g, b) ==
  <<"block", g, b>>

\* one call: its name, the page or latch it is made on, UnpinPage's is_dirty
Ev(e, p) ==
  [e |-> e, p |-> p, is_dirty |-> FALSE]

UnpinEv(p, is_dirty) ==
  [e |-> "UnpinPage", p |-> p, is_dirty |-> is_dirty]

\* the block page of slot number n
BlockIndOf(n) ==
  n \div BLOCK_ARRAY_SIZE

\* the block page a probe holds when its loop ends
LastBlock(g, visited) ==
  BlockOf(g, BlockIndOf(visited[Len(visited)]))

\* the calls of a probe's loop from its i-th inspected slot on: the first
\* block page is fetched and latched, and after the last slot of a block page
\* the page is unlatched and unpinned and the next one fetched and latched
RECURSIVE WalkEvents(_, _, _, _, _)
WalkEvents(g, visited, i, acq, rel) ==
  IF i > Len(visited) THEN <<>>
  ELSE
    LET b == BlockOf(g, BlockIndOf(visited[i]))
        first == IF i = 1 THEN <<Ev("FetchPage", b), Ev(acq, b)>> ELSE <<>>
        cross ==
          IF i < Len(visited)
               /\ visited[i] % BLOCK_ARRAY_SIZE = BLOCK_ARRAY_SIZE - 1
          THEN LET nx == BlockOf(g, BlockIndOf(visited[i + 1])) IN
               <<Ev(rel, b), UnpinEv(b, FALSE), Ev("FetchPage", nx),
                 Ev(acq, nx)>>
          ELSE <<>>
    IN first \o cross \o WalkEvents(g, visited, i + 1, acq, rel)

\* GetValue: after the loop it releases the latches and returns
GetValueEvents(g, visited) ==
  <<Ev("RLock", TableLatch), Ev("FetchPage", HeaderOf(g)),
    Ev("RLatch", HeaderOf(g))>>
  \o WalkEvents(g, visited, 1, "RLatch", "RUnlatch")
  \o <<Ev("RUnlatch", LastBlock(g, visited)), Ev("RUnlatch", HeaderOf(g)),
       Ev("RUnlock", TableLatch)>>

\* Remove: every return unlatches and unpins the block page (dirty when the
\* slot was cleared), then the header page
RemoveEvents(g, ret, visited) ==
  <<Ev("RLock", TableLatch), Ev("FetchPage", HeaderOf(g)),
    Ev("RLatch", HeaderOf(g))>>
  \o WalkEvents(g, visited, 1, "WLatch", "WUnlatch")
  \o (IF ret THEN <<Ev("Write", LastBlock(g, visited))>> ELSE <<>>)
  \o <<Ev("WUnlatch", LastBlock(g, visited)),
       UnpinEv(LastBlock(g, visited), ret),
       Ev("RUnlatch", HeaderOf(g)), UnpinEv(HeaderOf(g), FALSE),
       Ev("RUnlock", TableLatch)>>

\* InternalInsert: every return unlatches and unpins the block page (dirty
\* when the pair was stored), then the header page
InternalInsertEvents(g, ret, visited) ==
  <<Ev("FetchPage", HeaderOf(g)), Ev("RLatch", HeaderOf(g))>>
  \o WalkEvents(g, visited, 1, "WLatch", "WUnlatch")
  \o (IF ret THEN <<Ev("Write", LastBlock(g, visited))>> ELSE <<>>)
  \o <<Ev("WUnlatch", LastBlock(g, visited)),
       UnpinEv(LastBlock(g, visited), ret),
       Ev("RUnlatch", HeaderOf(g)), UnpinEv(HeaderOf(g), FALSE)>>

\* GetSize
GetSizeEvents(g) ==
  <<Ev("RLock", TableLatch), Ev("FetchPage", HeaderOf(g)),
    Ev("RLatch", HeaderOf(g)), Ev("RUnlatch", HeaderOf(g)),
    UnpinEv(HeaderOf(g), FALSE), Ev("RUnlock", TableLatch)>>

\* the block pages b .. new_nb - 1 of a new table: NewPage, AddBlockPageId
\* into the header page, UnpinPage(tmp, false)
RECURSIVE AllocEvents(_, _, _)
AllocEvents(g, b, new_nb) ==
  IF b >= new_nb THEN <<>>
  ELSE <<Ev("NewPage", BlockOf(g, b)), Ev("Write", HeaderOf(g)),
         UnpinEv(BlockOf(g, b), FALSE)>>
       \o AllocEvents(g, b + 1, new_nb)

\* the constructor
CtorEvents(nb) ==
  <<Ev("NewPage", HeaderOf(0)), Ev("WLatch", HeaderOf(0)),
    Ev("Write", HeaderOf(0))>>
  \o AllocEvents(0, 0, nb)
  \o <<Ev("WUnlatch", HeaderOf(0)), UnpinEv(HeaderOf(0), TRUE)>>

\* the migration loop of Resize from slot i of the old table (generation g)
\* into the new one (generation g + 1)
RECURSIVE MigrateEvents(_, _, _, _, _, _)
MigrateEvents(g, old_nb, old_tb, i, new_nb, new_tb) ==
  IF i >= old_nb * BLOCK_ARRAY_SIZE THEN <<>>
  ELSE
    LET b == BlockOf(g, BlockIndOf(i))
        slot == old_tb[BlockIndOf(i)][i % BLOCK_ARRAY_SIZE]
        open == IF i % BLOCK_ARRAY_SIZE = 0
                THEN <<Ev("FetchPage", b), Ev("RLatch", b)>> ELSE <<>>
        close == IF i % BLOCK_ARRAY_SIZE = BLOCK_ARRAY_SIZE - 1
                 THEN <<Ev("RUnlatch", b), UnpinEv(b, FALSE),
                        Ev("DeletePage", b)>>
                 ELSE <<>>
    IN
    IF slot.readable
    THEN LET r == InternalInsert(new_nb, new_tb, slot.key, slot.value) IN
         IF r.hung THEN open
         ELSE open \o InternalInsertEvents(g + 1, r.ret, r.visited) \o close
              \o MigrateEvents(g, old_nb, old_tb, i + 1, new_nb, r.tb)
    ELSE open \o close
         \o MigrateEvents(g, old_nb, old_tb, i + 1, new_nb, new_tb)

\* Resize of the table of generation g, up to the migration loop: the old
\* header page fetched, the new header page and new_nb block pages created
ResizeHeadEvents(g, new_nb) ==
  <<Ev("WLock", TableLatch), Ev("FetchPage", HeaderOf(g)),
    Ev("RLatch", HeaderOf(g)), Ev("NewPage", HeaderOf(g + 1)),
    Ev("WLatch", HeaderOf(g + 1)), Ev("Write", HeaderOf(g + 1)),
    Ev("WUnlatch", HeaderOf(g + 1)), Ev("RLatch", HeaderOf(g + 1))>>
  \o AllocEvents(g + 1, 0, new_nb)

\* Resize of the table of generation g, after the migration loop
ResizeTailEvents(g) ==
  <<Ev("RUnlatch", HeaderOf(g + 1)), Ev("RUnlatch", HeaderOf(g)),
    UnpinEv(HeaderOf(g), FALSE), Ev("DeletePage", HeaderOf(g)),
    UnpinEv(HeaderOf(g + 1), FALSE), Ev("WUnlock", TableLatch)>>

\* Resize of the table of generation g
ResizeEvents(g, nb, tb, initial_size) ==
  LET new_nb == NewSize(initial_size) IN
  ResizeHeadEvents(g, new_nb)
  \o MigrateEvents(g, nb, tb, 0, new_nb, EmptyTable(new_nb))
  \o ResizeTailEvents(g)

\* the loop of Insert, after table_latch_.RLock(), for a call that returns
RECURSIVE InsertEvents(_, _, _, _, _, _)
InsertEvents(g, nb, tb, key, value, full) ==
  LET r == InternalInsert(nb, tb, key, value)
      ii == InternalInsertEvents(g, r.ret, r.visited)
  IN
  IF r.ret \/ ~KeepFull(full, r.full)
  THEN ii \o <<Ev("RUnlock", TableLatch)>>
  ELSE LET z == ResizeTable(nb, tb, GetSize(nb)) IN
       ii \o <<Ev("RUnlock", TableLatch)>>
       \o GetSizeEvents(g)
       \o ResizeEvents(g, nb, tb, GetSize(nb))
       \o <<Ev("RLock", TableLatch)>>
       \o InsertEvents(g + 1, z.nb, z.tb, key, value, KeepFull(full, r.full))

\* a page of the pool as the table's calls leave it: unsaved is true when its
\* image was written since the page was created
NewPageRec ==
  [pin_count |-> 0, is_dirty |-> FALSE, unsaved |-> FALSE]

PageRecOf(m, p) ==
  IF p \in DOMAIN m THEN m[p] ELSE NewPageRec

\* the effect of one call on its page: FetchPage and NewPage pin it,
\* UnpinPage does what UnpinPageImpl does to a resident page
AfterEv(page, ev) ==
  IF ev.e \in {"FetchPage", "NewPage"}
  THEN [page EXCEPT !.pin_count = @ + 1]
  ELSE IF ev.e = "UnpinPage"
  THEN IF page.pin_count > 0
       THEN [page EXCEPT !.is_dirty = @ \/ ev.is_dirty, !.pin_count = @ - 1]
       ELSE page
  ELSE IF ev.e = "Write"
  THEN [page EXCEPT !.unsaved = TRUE]
  ELSE page

\* the calls of evs that are made on page p and change its pin count, dirty
\* flag or image
CallsOn(evs, p) ==
  SelectSeq(evs, LAMBDA ev :
    ev.p = p /\ ev.e \in {"FetchPage", "NewPage", "UnpinPage", "Write"})

\* page after the calls evs[i .. ], all made on it
RECURSIVE ApplyEvents(_, _, _)
ApplyEvents(page, evs, i) ==
  IF i > Len(evs) THEN page
  ELSE ApplyEvents(AfterEv(page, evs[i]), evs, i + 1)

\* the pages of the table of generation g with nb block pages, after the
\* calls evs made on the pages m
PagesOf(m, evs, g, nb) ==
  [hdr |-> ApplyEvents(PageRecOf(m, HeaderOf(g)),
                       CallsOn(evs, HeaderOf(g)), 1),
   blk |-> [b \in 0 .. (nb - 1) |->
              ApplyEvents(PageRecOf(m, BlockOf(g, b)),
                          CallsOn(evs, BlockOf(g, b)), 1)]]

\* the table's pages before an operation, by name
NamedPages(pgs, nb) ==
  (HeaderOf(0) :> pgs.hdr)
    @@ [p \in {BlockOf(0, b) : b \in 0 .. (nb - 1)} |-> pgs.blk[p[3]]]

\* the table's pages after an operation that made the calls evs and left the
\* table of generation g with nb block pages
PagesAfter(pgs, old_nb, evs, g, nb) ==
  PagesOf(NamedPages(pgs, old_nb), evs, g, nb)

(***************************************************************************)
(* SpecHT: one thread calls the table's operations                         *)
(***************************************************************************)
\* one more call of the table's client, within the budget of the run; a call
\* that hangs never returns, so nothing follows it
TickHT ==
  /\ hpc = "idle"
  /\ calls < MaxOps
  /\ calls' = calls + 1
  /\ UNCHANGED <<bpVars, th>>

Stuck(hung) ==
  IF hung THEN "hung" ELSE "idle"

\* LinearProbeHashTable::GetValue
GetValue(key) ==
  LET r == GetValueProbe(num_blocks, blocks, key)
      evs == IF r.hung THEN <<>> ELSE GetValueEvents(0, r.visited)
  IN
  /\ hlast' = [HCall("GetValue", key, 0, r.result # <<>>, r.result,
                     <<r.visited>>, FALSE, FALSE, r.hung)
                EXCEPT !.events = evs]
  /\ hpc' = Stuck(r.hung)
  /\ tp' = PagesAfter(tp, num_blocks, evs, 0, num_blocks)
  /\ UNCHANGED <<num_blocks, blocks, live>>

\* LinearProbeHashTable::Insert
Insert(key, value) ==
  LET r == InsertLoop(num_blocks, blocks, key, value, FALSE, <<>>, 0)
      evs == IF r.hung \/ r.over THEN <<>>
             ELSE <<Ev("RLock", TableLatch)>>
                  \o InsertEvents(0, num_blocks, blocks, key, value, FALSE)
  IN
  /\ ~r.over
  /\ num_blocks' = r.nb
  /\ blocks' = r.tb
  /\ hlast' = [HCall("Insert", key, value, r.ret, <<>>, r.probes,
                     r.tb # blocks, <<key, value>> \in live, r.hung)
                EXCEPT !.events = evs]
  /\ hpc' = Stuck(r.hung)
  /\ tp' = IF r.hung THEN tp
           ELSE PagesAfter(tp, num_blocks, evs, r.resizes, r.nb)
  /\ live' = IF r.ret THEN live \cup {<<key, value>>} ELSE live

\* LinearProbeHashTable::Remove
Remove(key, value) ==
  LET r == RemoveProbe(num_blocks, blocks, key, value)
      evs == IF r.hung THEN <<>> ELSE RemoveEvents(0, r.ret, r.visited)
  IN
  /\ blocks' = r.tb
  /\ hlast' = [HCall("Remove", key, value, r.ret, <<>>, <<r.visited>>,
                     r.tb # blocks, <<key, value>> \in live, r.hung)
                EXCEPT !.events = evs]
  /\ hpc' = Stuck(r.hung)
  /\ tp' = PagesAfter(tp, num_blocks, evs, 0, num_blocks)
  /\ live' = IF r.ret THEN live \ {<<key, value>>} ELSE live
  /\ UNCHANGED num_blocks

\* LinearProbeHashTable::Resize, called by the client
Resize(initial_size) ==
  LET z == ResizeTable(num_blocks, blocks, initial_size)
      evs == IF z.hung THEN <<>>
             ELSE ResizeEvents(0, num_blocks, blocks, initial_size)
  IN
  /\ NewSize(initial_size) <= MaxBlocks
  /\ num_blocks' = z.nb
  /\ blocks' = z.tb
  /\ hlast' = [HCall("Resize", initial_size, 0, TRUE, <<>>, <<>>, TRUE,
                     FALSE, z.hung)
                EXCEPT !.events = evs]
  /\ hpc' = Stuck(z.hung)
  /\ tp' = IF z.hung THEN tp
           ELSE PagesAfter(tp, num_blocks, evs, 1, z.nb)
  /\ UNCHANGED live

\* LinearProbeHashTable::LinearProbeHashTable, with num_buckets block pages,
\* over a new buffer pool
InitHT ==
  /\ pages = [f \in Frames |-> NoVictim]
  /\ page_table = [p \in PageIds |-> NoFrame]
  /\ free_list = [i \in 1 .. PoolSize |-> i - 1]
  /\ replacer = ReplacerInit
  /\ disk = [p \in PageIds |-> 0]
  /\ next_page_id = 0
  /\ deallocated = {}
  /\ last = OtherCall("init", TRUE)
  /\ expect = [p \in PageIds |-> 0]
  /\ calls = 0
  /\ num_blocks \in 1 .. MaxBuckets
  /\ blocks = EmptyTable(num_blocks)
  /\ hpc = "idle"
  /\ hlast = NoCall
  /\ live = {}
  /\ tp = PagesOf(<<>>, CtorEvents(num_blocks), 0, num_blocks)
  /\ th = <<>>

NextHT ==
  \/ \E k \in Keys : TickHT /\ GetValue(k)
  \/ \E k \in Keys, v \in Values : TickHT /\ Insert(k, v)
  \/ \E k \in Keys, v \in Values : TickHT /\ Remove(k, v)

\* the client calls GetValue, Insert and Remove; Resize runs inside Insert
SpecHT ==
  InitHT /\ [][NextHT]_vars

NextHTR ==
  \/ \E k \in Keys : TickHT /\ GetValue(k)
  \/ \E k \in Keys, v \in Values : TickHT /\ Insert(k, v)
  \/ \E k \in Keys, v \in Values : TickHT /\ Remove(k, v)
  \/ \E n \in 1 .. ((MaxBlocks * BLOCK_ARRAY_SIZE) \div 2) : TickHT /\ Resize(n)

\* the client also calls Resize, with any initial_size
SpecHTR ==
  InitHT /\ [][NextHTR]_vars

(***************************************************************************)
(* Hash table claims of one thread (checked under SpecHT)                  *)
(***************************************************************************)
Range(seq) == {seq[i] : i \in 1 .. Len(seq)}

\* the slots <<block, offset>> that hold the readable pair (key, value)
ReadableSlots(key, value) ==
  {bo \in (0 .. (num_blocks - 1)) \X (0 .. (BLOCK_ARRAY_SIZE - 1)) :
     /\ blocks[bo[1]][bo[2]].readable
     /\ blocks[bo[1]][bo[2]].key = key
     /\ blocks[bo[1]][bo[2]].value = value}

\* C6: between an Insert(k, v) that returned true and the Remove(k, v) that
\* returns true, every GetValue(k) returns true with v in its result.
C6_InsertedIsFound ==
  hlast.op = "GetValue" =>
    \A v \in Values :
      <<hlast.key, v>> \in live =>
        /\ ~hlast.hung
        /\ hlast.ret
        /\ v \in Range(hlast.result)

\* C7: no two readable slots hold the same (key, value) pair, and an
\* Insert(k, v) made while (k, v) is live returns false and changes no slot.
C7_NoDuplicatePair ==
  /\ \A k \in Keys, v \in Values : Cardinality(ReadableSlots(k, v)) <= 1
  /\ (hlast.op = "Insert" /\ ~hlast.hung /\ hlast.was_live) =>
       ~hlast.ret /\ ~hlast.changed

\* C8: a Remove(k, v) made while (k, v) is live returns true and GetValue(k)
\* does not contain v afterwards; a Remove(k, v) made while (k, v) is not
\* live returns false and changes no slot.
C8_RemoveLive ==
  (hlast.op = "Remove" /\ ~hlast.hung) =>
    IF hlast.was_live
      THEN /\ hlast.ret
           /\ LET g == GetValueProbe(num_blocks, blocks, hlast.key) IN
              ~g.hung => hlast.value \notin Range(g.result)
      ELSE ~hlast.ret /\ ~hlast.changed

\* C9: every probe of GetValue, Remove and the internal insert inspects each
\* slot at most once and ends when it is back at its first slot, so that
\* every call returns (an Insert that finds no free slot after resizing).
C9_ProbeOneCycle ==
  hlast.op \in {"GetValue", "Insert", "Remove", "Resize"} =>
    /\ ~hlast.hung
    /\ \A i \in 1 .. Len(hlast.probes) :
         \A m, n \in 1 .. Len(hlast.probes[i]) :
           m # n => hlast.probes[i][m] # hlast.probes[i][n]

(***************************************************************************)
(* SpecConc: several threads call the table's operations                   *)
(*                                                                         *)
(* th[t] is the position of thread t inside its call and the locals of the *)
(* call.  A thread takes one step per section it runs under a latch: the   *)
(* slots of one block page of InternalInsert under that page's write       *)
(* latch, the probe of GetValue and of Remove, GetSize under the table's   *)
(* read latch, and the two halves of Resize under the latch Resize takes:  *)
(* the new header and block pages, then the migration.                     *)
(***************************************************************************)
\* a thread outside the table's operations, before its first call
IdleThread ==
  [pc |-> "idle", op |-> "none", key |-> 0, value |-> 0, full |-> FALSE,
   hash_val |-> 0, block_ind |-> 0, offset |-> 0, outcome |-> "none",
   size |-> 0, ret |-> FALSE, n |-> 0, r |-> 0, old_nb |-> 0,
   old_tb |-> <<>>]

\* a Resize that takes table_latch_ in read mode, as the other operations do
ResizeLatchShared ==
  "R"

\* the mode in which Resize takes table_latch_: table_latch_.WLock()
ResizeLatch ==
  "W"

\* the threads between RLock and RUnlock of Insert, GetSize, GetValue or
\* Remove
Readers ==
  {t \in Threads :
     th[t].pc \in {"insert", "probe", "probed", "sizing", "get", "rem", "hung"}}

\* the threads inside Resize, between its lock and its unlock
Writers ==
  {t \in Threads : th[t].pc \in {"migrate", "spin"}}

\* the mode in which thread t holds table_latch_
Holds(t) ==
  IF t \in Readers THEN "R"
  ELSE IF t \in Writers THEN ResizeLatch
  ELSE "none"

\* ReaderWriterLatch: a thread gets the latch in write mode when no other
\* thread holds it, in read mode when no other thread holds it in write mode
CanLock(t, mode) ==
  \A u \in Threads \ {t} :
    \/ Holds(u) = "none"
    \/ mode = "R" /\ Holds(u) = "R"

\* the number of GetValue and Remove calls made so far
ReadsMade ==
  Cardinality({ui \in Threads \X (1 .. MaxReads) : ui[2] <= th[ui[1]].r})

\* thread t after its call has returned ret: its locals are gone
Returned(t, ret) ==
  [IdleThread EXCEPT !.op = th[t].op, !.outcome = th[t].outcome,
                     !.ret = ret, !.n = th[t].n, !.r = th[t].r]

\* the variables the threads leave alone
ConcIdle ==
  UNCHANGED <<bpVars, calls, htVars>>

\* the table's pages of generation g, by name
NamedPagesAt(g, pgs, nb) ==
  (HeaderOf(g) :> pgs.hdr)
    @@ [p \in {BlockOf(g, b) : b \in 0 .. (nb - 1)} |-> pgs.blk[p[3]]]

\* Insert, up to the loop: table_latch_.RLock(); bool full = false
InsertCall(t, key, value) ==
  /\ th[t].pc = "idle"
  /\ th[t].n < MaxInserts
  /\ CanLock(t, "R")
  /\ th' = [th EXCEPT ![t] = [IdleThread EXCEPT !.pc = "insert",
                                               !.op = "Insert",
                                               !.key = key,
                                               !.value = value,
                                               !.n = th[t].n + 1,
                                               !.r = th[t].r]]
  /\ UNCHANGED <<tableVars, tp>>
  /\ ConcIdle

\* InternalInsert, up to its loop: the header page gives hash_val, block_ind
\* and offset; the first block page is fetched and latched
InternalInsertStart(t) ==
  /\ th[t].pc = "insert"
  /\ LET hash_val == HashVal(num_blocks, th[t].key)
         b == BlockOf(0, hash_val \div BLOCK_ARRAY_SIZE)
     IN
     /\ th' = [th EXCEPT ![t].pc = "probe",
                         ![t].hash_val = hash_val,
                         ![t].block_ind = hash_val \div BLOCK_ARRAY_SIZE,
                         ![t].offset = hash_val % BLOCK_ARRAY_SIZE]
     /\ tp' = PagesAfter(tp, num_blocks,
                         <<Ev("FetchPage", HeaderOf(0)),
                           Ev("RLatch", HeaderOf(0)),
                           Ev("FetchPage", b), Ev("WLatch", b)>>,
                         0, num_blocks)
  /\ UNCHANGED tableVars
  /\ ConcIdle

\* the loop of InternalInsert inside one block page, under its write latch:
\* it ends with the pair stored, the pair found, the full signal, or the move
\* to the next block page
RECURSIVE InsertInBlock(_, _, _, _, _, _, _)
InsertInBlock(nb, tb, key, value, hash_val, block_ind, offset) ==
  LET slot == tb[block_ind][offset]
      ins == BlockInsert(slot, key, value)
  IN
  IF ins.ok
  THEN [kind |-> "stored", tb |-> [tb EXCEPT ![block_ind][offset] = ins.slot],
        block_ind |-> block_ind, offset |-> offset]
  ELSE IF slot.key = key /\ slot.value = value
  THEN [kind |-> "dup", tb |-> tb, block_ind |-> block_ind,
        offset |-> offset]
  ELSE IF ProbeEnd(nb, block_ind, offset + 1, hash_val)
  THEN [kind |-> "full", tb |-> tb, block_ind |-> block_ind,
        offset |-> offset + 1]
  ELSE IF offset + 1 >= BLOCK_ARRAY_SIZE
  THEN [kind |-> "next", tb |-> tb, block_ind |-> (block_ind + 1) % nb,
        offset |-> 0]
  ELSE InsertInBlock(nb, tb, key, value, hash_val, block_ind, offset + 1)

\* the calls InternalInsert makes when it leaves block page b: to go to the
\* block page nx, or to return (the page is dirty when the pair was stored)
LeaveBlockEvents(kind, b, nx) ==
  IF kind = "next"
  THEN <<Ev("WUnlatch", b), UnpinEv(b, FALSE), Ev("FetchPage", nx),
         Ev("WLatch", nx)>>
  ELSE (IF kind = "stored" THEN <<Ev("Write", b)>> ELSE <<>>)
       \o <<Ev("WUnlatch", b), UnpinEv(b, kind = "stored"),
            Ev("RUnlatch", HeaderOf(0)), UnpinEv(HeaderOf(0), FALSE)>>

\* one block page of InternalInsert's probe
ProbeBlock(t) ==
  /\ th[t].pc = "probe"
  /\ LET r == InsertInBlock(num_blocks, blocks, th[t].key, th[t].value,
                            th[t].hash_val, th[t].block_ind, th[t].offset)
     IN
     /\ blocks' = r.tb
     /\ th' = [th EXCEPT
                 ![t].pc = IF r.kind = "next" THEN "probe" ELSE "probed",
                 ![t].block_ind = r.block_ind,
                 ![t].offset = r.offset,
                 ![t].outcome = r.kind,
                 ![t].full = KeepFull(th[t].full, r.kind = "full")]
     /\ tp' = PagesAfter(tp, num_blocks,
                         LeaveBlockEvents(r.kind, BlockOf(0, th[t].block_ind),
                                          BlockOf(0, r.block_ind)),
                         0, num_blocks)
  /\ UNCHANGED num_blocks
  /\ ConcIdle

\* Insert after InternalInsert has returned: return true, return false, or
\* RUnlock and go on to Resize(GetSize())
AfterProbe(t) ==
  /\ th[t].pc = "probed"
  /\ th' = [th EXCEPT
              ![t] = IF th[t].outcome # "stored" /\ th[t].full
                     THEN [th[t] EXCEPT !.pc = "getsize"]
                     ELSE Returned(t, th[t].outcome = "stored")]
  /\ UNCHANGED <<tableVars, tp>>
  /\ ConcIdle

\* GetSize(), the argument of Resize: table_latch_.RLock()
GetSizeBegin(t) ==
  /\ th[t].pc = "getsize"
  /\ CanLock(t, "R")
  /\ th' = [th EXCEPT ![t].pc = "sizing"]
  /\ UNCHANGED <<tableVars, tp>>
  /\ ConcIdle

\* GetSize(): reads NumBlocks from the header page, table_latch_.RUnlock()
GetSizeEnd(t) ==
  /\ th[t].pc = "sizing"
  /\ th' = [th EXCEPT ![t].pc = "resize", ![t].size = GetSize(num_blocks)]
  /\ tp' = PagesAfter(tp, num_blocks, GetSizeEvents(0), 0, num_blocks)
  /\ UNCHANGED tableVars
  /\ ConcIdle

\* Resize(size), first half: it takes the table latch, keeps the old header
\* page, makes the new header page the table's header page and allocates the
\* new block pages
ResizeBegin(t) ==
  /\ th[t].pc = "resize"
  /\ CanLock(t, ResizeLatch)
  /\ NewSize(th[t].size) <= MaxBlocks
  /\ LET new_nb == NewSize(th[t].size) IN
     /\ num_blocks' = new_nb
     /\ blocks' = EmptyTable(new_nb)
     /\ th' = [th EXCEPT ![t].pc = "migrate",
                         ![t].old_nb = num_blocks,
                         ![t].old_tb = blocks]
     /\ tp' = PagesOf(<<>>, ResizeHeadEvents(0, new_nb), 1, new_nb)
  /\ ConcIdle

\* Resize(size), second half: the migration loop, the old pages deleted, the
\* new header page unpinned, the table latch released
ResizeMigrate(t) ==
  /\ th[t].pc = "migrate"
  /\ LET m == Migrate(th[t].old_nb, th[t].old_tb, 0, num_blocks, blocks) IN
     /\ blocks' = m.tb
     /\ th' = [th EXCEPT ![t].pc = IF m.hung THEN "spin" ELSE "relock",
                         ![t].old_nb = 0,
                         ![t].old_tb = <<>>]
     /\ tp' = IF m.hung THEN tp
              ELSE PagesOf(NamedPagesAt(1, tp, num_blocks),
                           MigrateEvents(0, th[t].old_nb, th[t].old_tb, 0,
                                         num_blocks, blocks)
                             \o ResizeTailEvents(0),
                           1, num_blocks)
  /\ UNCHANGED num_blocks
  /\ ConcIdle

\* table_latch_.RLock() after Resize, back to the head of the loop
Relock(t) ==
  /\ th[t].pc = "relock"
  /\ CanLock(t, "R")
  /\ th' = [th EXCEPT ![t].pc = "insert"]
  /\ UNCHANGED <<tableVars, tp>>
  /\ ConcIdle

\* GetValue, up to the probe: table_latch_.RLock()
GetValueCall(t, key) ==
  /\ th[t].pc = "idle"
  /\ ReadsMade < MaxReads
  /\ CanLock(t, "R")
  /\ th' = [th EXCEPT ![t] = [IdleThread EXCEPT !.pc = "get",
                                               !.op = "GetValue",
                                               !.key = key,
                                               !.n = th[t].n,
                                               !.r = th[t].r + 1]]
  /\ UNCHANGED <<tableVars, tp>>
  /\ ConcIdle

\* GetValue: the probe, table_latch_.RUnlock(), return
GetValueReturn(t) ==
  /\ th[t].pc = "get"
  /\ LET g == GetValueProbe(num_blocks, blocks, th[t].key) IN
     /\ th' = [th EXCEPT ![t] = IF g.hung THEN [th[t] EXCEPT !.pc = "hung"]
                                ELSE Returned(t, g.result # <<>>)]
     /\ tp' = IF g.hung THEN tp
              ELSE PagesAfter(tp, num_blocks, GetValueEvents(0, g.visited),
                              0, num_blocks)
  /\ UNCHANGED tableVars
  /\ ConcIdle

\* Remove, up to the probe: table_latch_.RLock()
RemoveCall(t, key, value) ==
  /\ th[t].pc = "idle"
  /\ ReadsMade < MaxReads
  /\ CanLock(t, "R")
  /\ th' = [th EXCEPT ![t] = [IdleThread EXCEPT !.pc = "rem",
                                               !.op = "Remove",
                                               !.key = key,
                                               !.value = value,
                                               !.n = th[t].n,
                                               !.r = th[t].r + 1]]
  /\ UNCHANGED <<tableVars, tp>>
  /\ ConcIdle

\* Remove: the probe, table_latch_.RUnlock(), return
RemoveReturn(t) ==
  /\ th[t].pc = "rem"
  /\ LET g == RemoveProbe(num_blocks, blocks, th[t].key, th[t].value) IN
     /\ blocks' = g.tb
     /\ th' = [th EXCEPT ![t] = IF g.hung THEN [th[t] EXCEPT !.pc = "hung"]
                                ELSE Returned(t, g.ret)]
     /\ tp' = IF g.hung THEN tp
              ELSE PagesAfter(tp, num_blocks,
                              RemoveEvents(0, g.ret, g.visited),
                              0, num_blocks)
  /\ UNCHANGED num_blocks
  /\ ConcIdle

\* the table as constructed, and NumThreads threads outside its operations
InitConc ==
  /\ pages = [f \in Frames |-> NoVictim]
  /\ page_table = [p \in PageIds |-> NoFrame]
  /\ free_list = [i \in 1 .. PoolSize |-> i - 1]
  /\ replacer = ReplacerInit
  /\ disk = [p \in PageIds |-> 0]
  /\ next_page_id = 0
  /\ deallocated = {}
  /\ last = OtherCall("init", TRUE)
  /\ expect = [p \in PageIds |-> 0]
  /\ calls = 0
  /\ num_blocks \in 1 .. MaxBuckets
  /\ blocks = EmptyTable(num_blocks)
  /\ hpc = "idle"
  /\ hlast = NoCall
  /\ live = {}
  /\ tp = PagesOf(<<>>, CtorEvents(num_blocks), 0, num_blocks)
  /\ th = [t \in Threads |-> IdleThread]

NextConc ==
  \/ \E t \in Threads, k \in Keys, v \in Values : InsertCall(t, k, v)
  \/ \E t \in Threads : InternalInsertStart(t)
  \/ \E t \in Threads : ProbeBlock(t)
  \/ \E t \in Threads : AfterProbe(t)
  \/ \E t \in Threads : GetSizeBegin(t)
  \/ \E t \in Threads : GetSizeEnd(t)
  \/ \E t \in Threads : ResizeBegin(t)
  \/ \E t \in Threads : ResizeMigrate(t)
  \/ \E t \in Threads : Relock(t)
  \/ \E t \in Threads, k \in Keys : GetValueCall(t, k)
  \/ \E t \in Threads : GetValueReturn(t)
  \/ \E t \in Threads, k \in Keys, v \in Values : RemoveCall(t, k, v)
  \/ \E t \in Threads : RemoveReturn(t)

SpecConc ==
  InitConc /\ [][NextConc]_vars

(***************************************************************************)
(* Hash table claims of several threads (checked under SpecConc)           *)
(***************************************************************************)
\* C10: every Insert call returns after finitely many Resize calls, true if
\* it stored the pair and false if the pair is already present; it never
\* keeps resizing.  In states: a thread of Insert goes on to Resize only
\* when the InternalInsert it has just run gave the full signal (a thread
\* that goes on after it found the pair present finds it present again after
\* the Resize, and goes on again), and a call that has returned gave true
\* when its probe stored the pair and false when its probe found the pair.
\* Probes that never end are the subject of C9.
C10_InsertReturns ==
  \A t \in Threads :
    /\ th[t].pc \in {"getsize", "sizing", "resize"} =>
         th[t].outcome = "full"
    /\ (th[t].pc = "idle" /\ th[t].op = "Insert") =>
         /\ th[t].ret => th[t].outcome = "stored"
         /\ ~th[t].ret => th[t].outcome = "dup"

\* C13: Resize is a global barrier: while a thread is inside Resize, between
\* the lock and the unlock of the table latch, no other thread is between the
\* table read-latch acquire and release of GetValue, Insert, Remove or
\* GetSize, and no other thread is inside Resize.
C13_ResizeBarrier ==
  \A t \in Writers : (Readers \cup Writers) \ {t} = {}

\* a thread is in the migration of Resize while another thread waits for the
\* table latch, in GetSize or at the head of Insert's loop
C13_Witness ==
  \E t \in Threads, u \in Threads :
    /\ t # u
    /\ th[t].pc = "migrate"
    /\ th[u].pc \in {"getsize", "relock"}

(***************************************************************************)
(* Resize claims (checked under SpecHTR)                                   *)
(***************************************************************************)
\* the number of readable slots of table (nb, tb) that hold (key, value)
PairCount(nb, tb, key, value) ==
  Cardinality({bo \in (0 .. (nb - 1)) \X (0 .. (BLOCK_ARRAY_SIZE - 1)) :
                 /\ tb[bo[1]][bo[2]].readable
                 /\ tb[bo[1]][bo[2]].key = key
                 /\ tb[bo[1]][bo[2]].value = value})

\* the multiset of readable pairs of table (nb, tb)
ReadableBag(nb, tb) ==
  [kv \in Keys \X Values |-> PairCount(nb, tb, kv[1], kv[2])]

\* the values GetValue(key) returns on table (nb, tb)
Retrievable(nb, tb, key) ==
  Range(GetValueProbe(nb, tb, key).result)

\* C11: Resize preserves the table's contents: the multiset of readable
\* pairs after a Resize equals the multiset before it and every value
\* GetValue returned before is returned after.  For the Resize that runs
\* inside an Insert: the multiset after the Insert is the multiset before
\* it, plus the inserted pair when the Insert returned true.
C11_ResizeKeepsPairs ==
  [][ /\ (hlast'.op = "Resize" /\ calls' # calls) =>
           /\ ~hlast'.hung
           /\ ReadableBag(num_blocks', blocks') = ReadableBag(num_blocks, blocks)
           /\ \A k \in Keys :
                ~GetValueProbe(num_blocks, blocks, k).hung =>
                  Retrievable(num_blocks, blocks, k)
                    \subseteq Retrievable(num_blocks', blocks', k)
      /\ (hlast'.op = "Insert" /\ calls' # calls /\ ~hlast'.hung
            /\ Len(hlast'.probes) > 1) =>
           ReadableBag(num_blocks', blocks') =
             [kv \in Keys \X Values |->
                ReadableBag(num_blocks, blocks)[kv]
                  + (IF hlast'.ret /\ kv = <<hlast'.key, hlast'.value>>
                     THEN 1 ELSE 0)]
    ]_vars

\* the slot at place i of the table, places counted block by block
SlotAt(i) ==
  blocks[i \div BLOCK_ARRAY_SIZE][i % BLOCK_ARRAY_SIZE]

\* the places a probe for key inspects before it is at place at
PlacesBefore(key, at) ==
  LET n == num_blocks * BLOCK_ARRAY_SIZE
      start == Hash(key) % n
  IN {(start + k) % n : k \in 0 .. (((at + n - start) % n) - 1)}

\* C17: every readable slot is reachable by its key's probe: the walk from
\* hash(key) mod (num_blocks * BLOCK_ARRAY_SIZE), with wraparound, to the
\* slot passes through no unoccupied slot.
C17_ProbeReaches ==
  \A at \in 0 .. (num_blocks * BLOCK_ARRAY_SIZE - 1) :
    SlotAt(at).readable =>
      \A i \in PlacesBefore(SlotAt(at).key, at) : SlotAt(i).occupied

\* Remove has just left a tombstone on the way from a key's first place to a
\* readable slot of that key
C17_Witness ==
  /\ hlast.op = "Remove"
  /\ hlast.ret
  /\ \E at \in 0 .. (num_blocks * BLOCK_ARRAY_SIZE - 1) :
       /\ SlotAt(at).readable
       /\ \E i \in PlacesBefore(SlotAt(at).key, at) :
            SlotAt(i).occupied /\ ~SlotAt(i).readable

(***************************************************************************)
(* Claims on the table's pool and latch calls (checked under SpecHT)       *)
(***************************************************************************)
\* the header page and the block pages of the table
TablePages ==
  {tp.hdr} \cup {tp.blk[b] : b \in 0 .. (num_blocks - 1)}

\* C12: every operation of the table that returns has matched each of its
\* FetchPage / NewPage calls with one UnpinPage: when no operation is in
\* flight, the header page and every block page have pin_count 0.
C12_PinsBalanced ==
  hpc = "idle" => \A page \in TablePages : page.pin_count = 0

\* the latch calls among the calls evs
LatchCalls(evs) ==
  SelectSeq(evs, LAMBDA ev :
    ev.e \in {"RLock", "WLock", "RUnlock", "WUnlock",
              "RLatch", "WLatch", "RUnlatch", "WUnlatch"})

\* the rank of a latch in the order table, header page, block page
Rank(p) ==
  IF p[1] = "table" THEN 1 ELSE IF p[1] = "header" THEN 2 ELSE 3

\* the latch calls evs[i .. ] of one thread that holds the latches held (in
\* the order it took them) keep the order: a latch is taken only while no
\* latch of a later rank and no other block page latch is held (the two
\* header pages of a Resize are of one rank), and the latch released is the
\* one taken last
RECURSIVE InOrder(_, _, _)
InOrder(evs, i, held) ==
  IF i > Len(evs) THEN TRUE
  ELSE IF evs[i].e \in {"RLock", "WLock", "RLatch", "WLatch"}
  THEN /\ \A j \in 1 .. Len(held) :
            \/ Rank(held[j]) < Rank(evs[i].p)
            \/ Rank(held[j]) = 2 /\ Rank(evs[i].p) = 2
       /\ InOrder(evs, i + 1, Append(held, evs[i].p))
  ELSE /\ held # <<>>
       /\ held[Len(held)] = evs[i].p
       /\ InOrder(evs, i + 1, SubSeq(held, 1, Len(held) - 1))

\* C18: in every operation of the table, Resize and its internal inserts
\* included, the thread takes latches in the order table, header page, block
\* page, releases them in the reverse order, and never holds the latches of
\* two block pages at the same time.
C18_LatchOrder ==
  InOrder(LatchCalls(hlast.events), 1, <<>>)

\* C19: every page whose image an operation of the table has written is
\* unpinned with is_dirty = true before its pin count is back at 0: a page of
\* the table with pin count 0 and a written image is dirty.
C19_WrittenPageDirty ==
  \A page \in TablePages :
    (page.pin_count = 0 /\ page.unsaved) => page.is_dirty

====
